---- MODULE Spec2Model ----
(***************************************************************************)
(* Model of src/python/infostream_to_segments.py: the single pass of       *)
(* main() over an IndexWriter InfoStream log.  One action per record kind  *)
(* (one regular expression of the dispatch chain), one for an unmatched    *)
(* line and one for end of stream.  A handler is an operator from the      *)
(* state before the line to the state after it; an exception raised in     *)
(* the middle of a handler keeps the assignments made before it, as in     *)
(* Python.                                                                 *)
(***************************************************************************)
EXTENDS Integers, Sequences, FiniteSets, TLC

\* ------------------------------------------------------------------ bounds
\* Lines of the log read by the full-alphabet specification Spec.
MaxLines == 2
\* Lines of the log read by the merge-alphabet specification SpecMerge.
MaxMergeLines == 4
\* Lines of the log read by the flush-alphabet specification SpecFlush.
MaxFlushLines == 4
\* Lines of the log read by the two-thread specification SpecThreads.
MaxThreadLines == 4
\* Lines of the log read by the commit-window specification SpecWindow.
MaxWindowLines == 6
\* Lines of the log read by the ordered-log specification SpecOrdered.
MaxOrderedLines == 4
\* Lines of the log read by the two-thread progress specification SpecProgress.
MaxProgressLines == 4
\* Lines of the log read by the window-bracket specification SpecBrackets.
MaxBracketLines == 4
\* Timestamps of the log are 1..MaxTime (any order from line to line).
MaxTime == 2

\* timedelta(seconds=30) subtracted from the first checkpoint's timestamp
CheckpointOffset == 30

\* the keys the two dicts may hold
ThreadNames == {"T1", "T2", "T3"}
SegmentNames == {"_a", "_b", "_c"}

\* Python None / a value that is set
None == << >>
Some(v) == << v >>
Val(o) == o[1]

\* One match of re_segment_desc: the groups the code reads.
\*   name = '_' + tup[0], max_doc = int(tup[2]), del = tup[3] ('' or '/N'),
\*   tag = what the diagnostics group contains ("merge", "flush", neither)
Desc(name, max_doc, del, tag) ==
  [name |-> name, max_doc |-> max_doc, del |-> del, tag |-> tag]

\* Segment.merge_during_commit: None, an int (pending generation), or a
\* tuple ('success' | 'timeout', seconds)
MDC(kind, v) == [kind |-> kind, v |-> v]
MDCNone == MDC("None", 0)

\* One entry of Segment.events: (timestamp, event, infostream_line_number).
\* The event text is its fixed part, its number and the segment it names.
Event(ts, label, n, seg, ln) ==
  [ts |-> ts, label |-> label, n |-> n, seg |-> seg, ln |-> ln]

\* The line being processed, classified: the record kind and its groups.
Rec(kind, ts, thread, name, n, m, descs, new) ==
  [kind |-> kind, ts |-> ts, thread |-> thread, name |-> name, n |-> n,
   m |-> m, descs |-> descs, new |-> new]
NoLine == Rec("", 0, "", "", 0, 0, << >>, "")

\* ------------------------------------------------------------------- state
VARIABLES
  all_segments,                 \* Segment.all_segments (index = object identity)
  by_segment_name,              \* dict name -> Segment (0: no such key)
  by_thread_name,               \* dict thread -> Segment (0: no such key)
  segment,                      \* main's local `segment` (0: unbound)
  timestamp,                    \* main's local `timestamp` (None: unbound)
  global_start_time,
  global_end_time,
  first_checkpoint,
  merge_during_commit_events,   \* list of [start_time, end_time]
  full_flush_events,            \* list of [start_time, end_time]
  merge_on_commit_thread_name,
  merge_commit_threads,         \* None or Some(set of thread names)
  commit_thread_name,
  line_number,
  line,                         \* the line last read, classified
  pc,                           \* "reading", "aborted" or "done"
  err,                          \* line number printed by the except clause
  snapshot                      \* the tuple pickled to segments_out

vars == << all_segments, by_segment_name, by_thread_name, segment, timestamp,
           global_start_time, global_end_time, first_checkpoint,
           merge_during_commit_events, full_flush_events,
           merge_on_commit_thread_name, merge_commit_threads,
           commit_thread_name, line_number, line, pc, err, snapshot >>

\* main's locals and the class attribute all_segments, as one value; exc is
\* TRUE once the handler of the current line has raised.
State ==
  [all_segments |-> all_segments,
   by_segment_name |-> by_segment_name,
   by_thread_name |-> by_thread_name,
   segment |-> segment,
   timestamp |-> timestamp,
   global_start_time |-> global_start_time,
   global_end_time |-> global_end_time,
   first_checkpoint |-> first_checkpoint,
   merge_during_commit_events |-> merge_during_commit_events,
   full_flush_events |-> full_flush_events,
   merge_on_commit_thread_name |-> merge_on_commit_thread_name,
   merge_commit_threads |-> merge_commit_threads,
   commit_thread_name |-> commit_thread_name,
   line_number |-> line_number,
   exc |-> FALSE]

Init ==
  /\ all_segments = << >>
  /\ by_segment_name = [n \in SegmentNames |-> 0]
  /\ by_thread_name = [t \in ThreadNames |-> 0]
  /\ segment = 0
  /\ timestamp = None
  /\ global_start_time = None
  /\ global_end_time = None
  /\ first_checkpoint = TRUE
  /\ merge_during_commit_events = << >>
  /\ full_flush_events = << >>
  /\ merge_on_commit_thread_name = None
  /\ merge_commit_threads = None
  /\ commit_thread_name = None
  /\ line_number = 0
  /\ line = NoLine
  /\ pc = "reading"
  /\ err = None
  /\ snapshot = None

\* ------------------------------------------------------ Segment (class)
\* Segment.__init__ with the class-attribute defaults; sum_max_doc is the
\* attribute merge start adds (None: the object has no such attribute).
NewSegment(name, source, max_doc, size_mb, start_time, end_time, ln) ==
  [name |-> name,
   source |-> source,
   max_doc |-> max_doc,
   size_mb |-> size_mb,
   start_time |-> start_time,
   start_infostream_line_number |-> ln,
   end_time |-> end_time,
   events |-> << >>,
   born_del_count |-> None,
   del_count_reclaimed |-> None,
   del_count |-> None,
   publish_timestamp |-> None,
   merged_into |-> None,
   merge_during_commit |-> MDCNone,
   ram_used_mb |-> None,
   is_cfs |-> FALSE,
   sum_max_doc |-> None]

\* the source argument: 'flush', 'flush-commit' or ('merge', [names])
Source(kind, srcs) == [kind |-> kind, srcs |-> srcs]

\* raise: the rest of the handler is skipped
Raise(s) == [s EXCEPT !.exc = TRUE]

\* Segment(...): appended to all_segments and bound to the local `segment`
Construct(s, seg) ==
  [s EXCEPT !.all_segments = Append(@, seg),
            !.segment = Len(s.all_segments) + 1]

\* add_event refusing a timestamp equal to the last one as well
add_event_strictly_forward(s, i, ts, label, n, seg) ==
  LET events == s.all_segments[i].events IN
  IF Len(events) > 0 /\ ts <= events[Len(events)].ts
  THEN Raise(s)
  ELSE [s EXCEPT !.all_segments[i].events =
          Append(@, Event(ts, label, n, seg, s.line_number))]

\* Segment.add_event on all_segments[i]
add_event(s, i, ts, label, n, seg) ==
  LET events == s.all_segments[i].events IN
  IF Len(events) > 0 /\ ts < events[Len(events)].ts
  THEN Raise(s)
  ELSE [s EXCEPT !.all_segments[i].events =
          Append(@, Event(ts, label, n, seg, s.line_number))]

\* bisect.bisect_right(events, ts, key=lambda x: x[0])
\* bisect_left: the insertion point before the events of an equal timestamp
RECURSIVE bisect_left(_, _, _, _)
bisect_left(events, ts, lo, hi) ==
  IF lo < hi
  THEN LET mid == (lo + hi) \div 2 IN
       IF events[mid + 1].ts < ts
       THEN bisect_left(events, ts, mid + 1, hi)
       ELSE bisect_left(events, ts, lo, mid)
  ELSE lo

RECURSIVE bisect_right(_, _, _, _)
bisect_right(events, ts, lo, hi) ==
  IF lo < hi
  THEN LET mid == (lo + hi) \div 2 IN
       \* Python indexes from 0: a[mid] is events[mid + 1]
       IF ts < events[mid + 1].ts
       THEN bisect_right(events, ts, lo, mid)
       ELSE bisect_right(events, ts, mid + 1, hi)
  ELSE lo

\* list.insert(at, x), at counted from 0
InsertAt(seq, at, x) ==
  SubSeq(seq, 1, at) \o << x >> \o SubSeq(seq, at + 1, Len(seq))

\* merge_event as an append at the end of the list
merge_event_appends(s, i, ts, label, n, seg) ==
  [s EXCEPT !.all_segments[i].events =
     Append(@, Event(ts, label, n, seg, s.line_number))]

\* Segment.merge_event on all_segments[i]
merge_event(s, i, ts, label, n, seg) ==
  LET events == s.all_segments[i].events
      insert_at == bisect_right(events, ts, 0, Len(events))
  IN [s EXCEPT !.all_segments[i].events =
        InsertAt(@, insert_at, Event(ts, label, n, seg, s.line_number))]

\* the timestamp/thread preamble, re_timestamp_thread
Preamble(s, ts) ==
  [s EXCEPT !.timestamp = Some(ts),
            !.global_start_time = IF @ = None THEN Some(ts) ELSE @,
            !.global_end_time = Some(ts)]

\* --------------------------------------------------------------- handlers
\* Each handler: the state after the body of its `if m is not None:` block.

\* a later checkpoint recording the new del_count without an event
checkpoint_update_without_event(s, i, ts, del_count) ==
  IF s.all_segments[i].del_count # None
     /\ ~(del_count > Val(s.all_segments[i].del_count))
  THEN Raise(s)
  ELSE [s EXCEPT !.all_segments[i].del_count = Some(del_count)]

\* the exception-free end of the checkpoint loop body for a later checkpoint:
\* del_count differs from the one recorded
checkpoint_update(s, i, ts, del_count) ==
  IF s.all_segments[i].del_count # None
     /\ ~(del_count > Val(s.all_segments[i].del_count))
  THEN Raise(s)                                          \* assert
  ELSE LET s1 == add_event(s, i, ts, "del_count", del_count, "") IN
       IF s1.exc THEN s1
       ELSE [s1 EXCEPT !.all_segments[i].del_count = Some(del_count)]

\* every checkpoint description read as a flushed segment
checkpoint_source_always_flush(tag) == Source("flush", << >>)

\* the source a checkpoint description's diagnostics give
checkpoint_source(tag) ==
  IF tag = "merge" THEN Source("merge", << >>) ELSE Source("flush", << >>)

\* a later checkpoint that passes over a segment it does not know
checkpoint_desc_skips_unknown(s, ts, d) ==
  LET del_count == IF d.del # None THEN Val(d.del) ELSE 0 IN
  IF d.tag \notin {"merge", "flush"} THEN Raise(s)
  ELSE IF s.first_checkpoint
       THEN LET s1 == Construct(s, NewSegment(d.name, checkpoint_source(d.tag),
                                              Some(d.max_doc), None,
                                              ts - CheckpointOffset, None,
                                              s.line_number))
            IN [s1 EXCEPT !.global_start_time = Some(ts - CheckpointOffset),
                          !.by_segment_name[d.name] = s1.segment]
       ELSE IF s.by_segment_name[d.name] = 0 THEN s
            ELSE LET i == s.by_segment_name[d.name]
                     s1 == [s EXCEPT !.segment = i]
                 IN IF Some(del_count) # s1.all_segments[i].del_count
                    THEN checkpoint_update(s1, i, ts, del_count)
                    ELSE s1

\* one iteration of `for tup in re_segment_desc.findall(m.group(3))`
checkpoint_desc(s, ts, d) ==
  LET del_count == IF d.del # None THEN Val(d.del) ELSE 0 IN
  IF d.tag \notin {"merge", "flush"}
  THEN Raise(s)                                          \* a new source
  ELSE
    IF s.first_checkpoint
    THEN LET source == checkpoint_source(d.tag)
             s1 == Construct(s, NewSegment(d.name, source, Some(d.max_doc), None,
                                           ts - CheckpointOffset, None,
                                           s.line_number))
         IN [s1 EXCEPT !.global_start_time = Some(ts - CheckpointOffset),
                       !.by_segment_name[d.name] = s1.segment]
    ELSE IF s.by_segment_name[d.name] = 0
         THEN Raise(s)                                   \* KeyError
         ELSE LET i == s.by_segment_name[d.name]
                  s1 == [s EXCEPT !.segment = i]
              IN IF Some(del_count) # s1.all_segments[i].del_count
                 THEN checkpoint_update(s1, i, ts, del_count)
                 ELSE s1

RECURSIVE checkpoint_loop(_, _, _, _)
checkpoint_loop(s, ts, descs, k) ==
  IF k > Len(descs) \/ s.exc THEN s
  ELSE checkpoint_loop(checkpoint_desc(s, ts, descs[k]), ts, descs, k + 1)

\* the count check accepting a line that describes more than it declares
count_mismatch_too_few_only(seg_count, num_segments_expected) ==
  seg_count < num_segments_expected

\* the comparison of seg_count with num_segments_expected
count_mismatch(seg_count, num_segments_expected) ==
  seg_count # num_segments_expected

\* re_now_checkpoint
now_checkpoint(s, r) ==
  LET s0 == [s EXCEPT !.timestamp = Some(r.ts)]
      s1 == checkpoint_loop(s0, r.ts, r.descs, 1)
  IN IF s1.exc THEN s1
     ELSE IF count_mismatch(Len(r.descs), r.n) THEN Raise(s1)
     ELSE [s1 EXCEPT !.first_checkpoint = FALSE]

\* re_seg_size
seg_size(s, r) ==
  IF s.by_segment_name[r.name] = 0 THEN Raise(s)         \* KeyError
  ELSE LET i == s.by_segment_name[r.name]
           s1 == [s EXCEPT !.segment = i,
                           !.all_segments[i].size_mb =
                              IF @ = None THEN Some(r.n) ELSE @]
       IN IF s1.global_start_time = None
          THEN IF s1.timestamp = None THEN Raise(s1)     \* unbound local
               ELSE [s1 EXCEPT !.global_start_time = s1.timestamp]
          ELSE s1

\* flush start without its assert
thread_is_free_unchecked(s, thread_name) == TRUE

\* `thread_name not in by_thread_name` of the flush start handler
thread_is_free(s, thread_name) == s.by_thread_name[thread_name] = 0

\* flush start tagging 'flush-commit' only on the thread that began the commit
flush_start_own_commit_only(s, r) ==
  LET source == IF s.commit_thread_name = Some(r.thread)
                THEN Source("flush-commit", << >>)
                ELSE Source("flush", << >>)
      s1 == Construct(s, NewSegment(r.name, source, Some(r.n), None, r.ts, None,
                                    s.line_number))
      s2 == [s1 EXCEPT !.by_segment_name[r.name] = s1.segment]
  IN IF ~thread_is_free(s2, r.thread) THEN Raise(s2)
     ELSE [s2 EXCEPT !.by_thread_name[r.thread] = s2.segment]

\* re_flush_start
flush_start(s, r) ==
  LET source == IF s.commit_thread_name # None
                THEN Source("flush-commit", << >>)
                ELSE Source("flush", << >>)
      s1 == Construct(s, NewSegment(r.name, source, Some(r.n), None, r.ts, None,
                                    s.line_number))
      s2 == [s1 EXCEPT !.by_segment_name[r.name] = s1.segment]
  IN IF ~thread_is_free(s2, r.thread) THEN Raise(s2)     \* assert
     ELSE [s2 EXCEPT !.by_thread_name[r.thread] = s2.segment]

\* the lookup answering with the segment made last, whatever the thread holds
lookup_thread_latest(s, thread_name) ==
  IF s.by_thread_name[thread_name] = 0 THEN Raise(s)
  ELSE [s EXCEPT !.segment = Len(s.all_segments)]

\* the lookup going on with the segment of the line before when the thread
\* holds none
lookup_thread_keeps_segment(s, thread_name) ==
  IF s.by_thread_name[thread_name] = 0
  THEN (IF s.segment = 0 THEN Raise(s) ELSE s)
  ELSE [s EXCEPT !.segment = s.by_thread_name[thread_name]]

\* segment = by_thread_name[thread_name]
lookup_thread(s, thread_name) ==
  IF s.by_thread_name[thread_name] = 0 THEN Raise(s)     \* KeyError
  ELSE [s EXCEPT !.segment = s.by_thread_name[thread_name]]

\* re_msec_to_write
msec_to_write(s, r) ==
  LET s1 == lookup_thread(s, r.thread) IN
  IF s1.exc THEN s1
  ELSE add_event(s1, s1.segment, r.ts, "done write", 0, "")

\* re_new_segment_deleted_docs
new_segment_deleted_docs(s, r) ==
  LET s1 == lookup_thread(s, r.thread) IN
  IF s1.exc THEN s1
  ELSE [s1 EXCEPT !.all_segments[s1.segment].born_del_count = Some(r.n),
                  !.all_segments[s1.segment].del_count = Some(r.n)]

\* the flushed-size report taking the segment of its name, whatever its thread
\* is flushing
new_flushed_size_by_name_only(s, r) ==
  IF s.by_segment_name[r.name] = 0 THEN Raise(s)
  ELSE LET s1 == [s EXCEPT !.segment = s.by_segment_name[r.name]] IN
       IF s1.by_thread_name[r.thread] = 0 THEN Raise(s1)
       ELSE [s1 EXCEPT !.all_segments[s1.segment].size_mb = Some(r.m),
                       !.all_segments[s1.segment].ram_used_mb = Some(r.n)]

\* re_new_flushed_size
new_flushed_size(s, r) ==
  IF s.by_segment_name[r.name] = 0 THEN Raise(s)         \* KeyError
  ELSE LET s1 == [s EXCEPT !.segment = s.by_segment_name[r.name]] IN
       IF s1.by_thread_name[r.thread] = 0 THEN Raise(s1) \* KeyError
       ELSE IF s1.segment # s1.by_thread_name[r.thread] THEN Raise(s1) \* assert
       ELSE [s1 EXCEPT !.all_segments[s1.segment].size_mb = Some(r.m),
                       !.all_segments[s1.segment].ram_used_mb = Some(r.n)]

\* the flush time handler without its `del`
flush_time_keeps_mapping(s, r) == lookup_thread(s, r.thread)

\* re_flush_time
flush_time(s, r) ==
  LET s1 == lookup_thread(s, r.thread) IN
  IF s1.exc THEN s1
  ELSE [s1 EXCEPT !.by_thread_name[r.thread] = 0]        \* del

\* re_create_compound_file
create_compound_file(s, r) ==
  LET s1 == lookup_thread(s, r.thread) IN
  IF s1.exc THEN s1
  ELSE LET s2 == add_event(s1, s1.segment, r.ts, "create compound file", 0, "") IN
       IF s2.exc THEN s2
       ELSE [s2 EXCEPT !.all_segments[s2.segment].is_cfs = TRUE]

\* re_publish_delgen: publish_timestamp is set on the local `segment`, the
\* event is added to by_segment_name[segment_name]
publish_delgen(s, r) ==
  IF s.segment = 0 THEN Raise(s)                         \* unbound local
  ELSE LET s1 == [s EXCEPT !.all_segments[s.segment].publish_timestamp =
                              Some(r.ts)] IN
       IF s1.by_segment_name[r.name] = 0 THEN Raise(s1)  \* KeyError
       ELSE add_event(s1, s1.by_segment_name[r.name], r.ts, "light", 0, "")

\* new merge deletes written to del_count as well
new_merge_deletes_sets_del_count(s, r) ==
  IF s.by_thread_name[r.thread] = 0 THEN Raise(s)
  ELSE [s EXCEPT !.all_segments[s.by_thread_name[r.thread]].born_del_count =
                    Some(r.n),
                 !.all_segments[s.by_thread_name[r.thread]].del_count =
                    Some(r.n)]

\* re_new_merge_deletes
new_merge_deletes(s, r) ==
  IF s.by_thread_name[r.thread] = 0 THEN Raise(s)        \* KeyError
  ELSE [s EXCEPT !.all_segments[s.by_thread_name[r.thread]].born_del_count =
                    Some(r.n)]

\* sum_max_doc and del_count_reclaimed of the merge start loop
RECURSIVE sum_max_doc_of(_)
sum_max_doc_of(descs) ==
  IF descs = << >> THEN 0
  ELSE descs[1].max_doc + sum_max_doc_of(Tail(descs))

RECURSIVE del_count_reclaimed_of(_)
del_count_reclaimed_of(descs) ==
  IF descs = << >> THEN 0
  ELSE (IF descs[1].del # None THEN Val(descs[1].del) ELSE 0)
       + del_count_reclaimed_of(Tail(descs))

\* merge_during_commit_events is non-empty and its last window has no end
window_open(s) ==
  /\ Len(s.merge_during_commit_events) > 0
  /\ s.merge_during_commit_events[Len(s.merge_during_commit_events)].end_time = None

\* the merge start handler taking every thread for a merge-on-commit thread
is_merge_commit_thread_any(s, thread_name) == TRUE

\* `thread_name in merge_commit_threads` of the merge start handler
is_merge_commit_thread(s, thread_name) ==
  thread_name \in Val(s.merge_commit_threads)

\* merge start keeping the mapping the thread already holds
merge_start_assign_if_free(s, thread_name) ==
  IF s.by_thread_name[thread_name] = 0
  THEN [s EXCEPT !.by_thread_name[thread_name] = s.segment]
  ELSE s

\* the assignment by_thread_name[thread_name] = segment of merge start
merge_start_assign(s, thread_name) ==
  [s EXCEPT !.by_thread_name[thread_name] = s.segment]

\* re_merge_start
merge_start(s, r) ==
  LET merging_segment_names == [k \in 1..Len(r.descs) |-> r.descs[k].name]
      new == [NewSegment(r.name, Source("merge", merging_segment_names), None,
                         None, r.ts, None, s.line_number)
                EXCEPT !.sum_max_doc = Some(sum_max_doc_of(r.descs)),
                       !.del_count_reclaimed =
                          Some(del_count_reclaimed_of(r.descs))]
      s1 == Construct(s, new)
  IN IF window_open(s1) /\ s1.merge_commit_threads = None
     THEN Raise(s1)                                      \* `in None`: TypeError
     ELSE LET s2 == IF window_open(s1) /\ is_merge_commit_thread(s1, r.thread)
                    THEN [s1 EXCEPT !.all_segments[s1.segment].merge_during_commit =
                            MDC("int", Len(s1.merge_during_commit_events))]
                    ELSE s1
              s3 == [s2 EXCEPT !.by_segment_name[r.name] = s2.segment]
          IN merge_start_assign(s3, r.thread)

\* `max_doc != segment.sum_max_doc - segment.del_count_reclaimed`
wrong_count_sums(seg, max_doc) ==
  \/ seg.sum_max_doc = None                              \* AttributeError
  \/ max_doc # Val(seg.sum_max_doc) - Val(seg.del_count_reclaimed)

\* re_msec_to_merge
msec_to_merge(s, r) ==
  LET s1 == lookup_thread(s, r.thread) IN
  IF s1.exc THEN s1
  ELSE LET i == s1.segment
           s2 == add_event(s1, i, r.ts, "done merge part", 0, "")
       IN IF s2.exc THEN s2
          ELSE IF s2.all_segments[i].max_doc = None
               THEN LET s3 == [s2 EXCEPT !.all_segments[i].max_doc = Some(r.n)] IN
                    IF wrong_count_sums(s3.all_segments[i], r.n)
                    THEN Raise(s3) ELSE s3
               ELSE IF r.n # Val(s2.all_segments[i].max_doc)
                    THEN Raise(s2) ELSE s2

\* re_msec_to_build_docmaps
msec_to_build_docmaps(s, r) ==
  LET s1 == lookup_thread(s, r.thread) IN
  IF s1.exc THEN s1
  ELSE add_event(s1, s1.segment, r.ts, "build merge sorted DocMaps", 0, "")

\* what merge finish does with maxDoc: TRUE when it raises
merge_finish_rejects(seg, max_doc) ==
  seg.max_doc # None /\ max_doc # Val(seg.max_doc)

\* re_merge_finish
merge_finish(s, r) ==
  LET s1 == lookup_thread(s, r.thread) IN
  IF s1.exc THEN s1
  ELSE LET i == s1.segment IN
       IF merge_finish_rejects(s1.all_segments[i], r.n) THEN Raise(s1)
       ELSE LET s2 == [s1 EXCEPT !.all_segments[i].max_doc =
                                    IF @ = None THEN Some(r.n) ELSE @,
                                 !.all_segments[i].size_mb = Some(r.m)]
            IN add_event(s2, i, r.ts, "done merge", 0, "")

\* the outcome with the elapsed time taken from the commit back to the window
merge_commit_outcome_reversed(s, seg, ts) ==
  LET events == s.merge_during_commit_events
      gen == seg.merge_during_commit.v
  IN IF gen = Len(events) /\ events[Len(events)].end_time = None
     THEN MDC("success", events[Len(events)].start_time - ts)
     ELSE MDC("timeout", events[gen].start_time - ts)

\* the timeout outcome measured from the last window of the list
merge_commit_outcome_last_window(s, seg, ts) ==
  LET events == s.merge_during_commit_events
      gen == seg.merge_during_commit.v
  IN IF gen = Len(events) /\ events[Len(events)].end_time = None
     THEN MDC("success", ts - events[Len(events)].start_time)
     ELSE MDC("timeout", ts - events[Len(events)].start_time)

\* the merge-during-commit outcome of the merge commit handler
merge_commit_outcome(s, seg, ts) ==
  LET events == s.merge_during_commit_events
      gen == seg.merge_during_commit.v
  IN IF gen = Len(events) /\ events[Len(events)].end_time = None
     THEN MDC("success", ts - events[Len(events)].start_time)
     ELSE MDC("timeout", ts - events[gen].start_time)    \* [gen - 1] from 0

\* the loop body forgetting merged_into
merge_commit_source_end_time_only(s, m, ts, segment_name) ==
  IF s.by_segment_name[segment_name] = 0 THEN Raise(s)
  ELSE LET old == s.by_segment_name[segment_name]
           s1 == [s EXCEPT !.all_segments[old].end_time = Some(ts)]
           s2 == merge_event(s1, old, s1.all_segments[m].start_time,
                             "start merge into", 0, s1.all_segments[m].name)
       IN add_event(s2, old, ts, "merged into", 0, s2.all_segments[m].name)

\* the body of `for segment_name in segment.source[1]` for one name
merge_commit_source(s, m, ts, segment_name) ==
  IF s.by_segment_name[segment_name] = 0 THEN Raise(s)   \* cannot find segment
  ELSE LET old == s.by_segment_name[segment_name]
           s1 == [s EXCEPT !.all_segments[old].end_time = Some(ts),
                           !.all_segments[old].merged_into = Some(m)]
           s2 == merge_event(s1, old, s1.all_segments[m].start_time,
                             "start merge into", 0, s1.all_segments[m].name)
       IN add_event(s2, old, ts, "merged into", 0, s2.all_segments[m].name)

\* the loop over segment.source[1] leaving after its first name
merge_commit_loop_first_only(s, m, ts, srcs, k) ==
  IF Len(srcs) = 0 THEN s ELSE merge_commit_source(s, m, ts, srcs[1])

RECURSIVE merge_commit_loop(_, _, _, _, _)
merge_commit_loop(s, m, ts, srcs, k) ==
  IF k > Len(srcs) \/ s.exc THEN s
  ELSE merge_commit_loop(merge_commit_source(s, m, ts, srcs[k]), m, ts, srcs, k + 1)

\* the merge commit taking its thread out of by_thread_name
merge_commit_frees_thread(s, r) ==
  LET s0 == lookup_thread(s, r.thread) IN
  IF s0.exc THEN s0
  ELSE LET s1 == [s0 EXCEPT !.by_thread_name[r.thread] = 0]
           m == s1.segment
           s2 == add_event(s1, m, r.ts, "light", 0, "")
       IN IF s2.exc THEN s2
          ELSE LET s3 == [s2 EXCEPT !.all_segments[m].publish_timestamp = Some(r.ts)]
                   mdc == s3.all_segments[m].merge_during_commit
               IN IF mdc.kind \in {"success", "timeout"}
                  THEN Raise(s3)
                  ELSE LET s4 == IF mdc.kind = "int"
                                 THEN [s3 EXCEPT !.all_segments[m].merge_during_commit =
                                         merge_commit_outcome(s3, s3.all_segments[m], r.ts)]
                                 ELSE s3
                       IN IF s4.all_segments[m].source.kind # "merge"
                          THEN Raise(s4)
                          ELSE merge_commit_loop(s4, m, r.ts,
                                                 s4.all_segments[m].source.srcs, 1)

\* re_merge_commit
merge_commit(s, r) ==
  LET s1 == lookup_thread(s, r.thread) IN
  IF s1.exc THEN s1
  ELSE LET m == s1.segment
           s2 == add_event(s1, m, r.ts, "light", 0, "")
       IN IF s2.exc THEN s2
          ELSE LET s3 == [s2 EXCEPT !.all_segments[m].publish_timestamp = Some(r.ts)]
                   mdc == s3.all_segments[m].merge_during_commit
               IN IF mdc.kind \in {"success", "timeout"}
                  THEN Raise(s3)                         \* tuple - 1: TypeError
                  ELSE LET s4 == IF mdc.kind = "int"
                                 THEN [s3 EXCEPT !.all_segments[m].merge_during_commit =
                                         merge_commit_outcome(s3, s3.all_segments[m], r.ts)]
                                 ELSE s3
                       IN IF s4.all_segments[m].source.kind # "merge"
                          THEN Raise(s4)   \* 'flush'[1] is 'l': cannot find segment
                          ELSE merge_commit_loop(s4, m, r.ts,
                                                 s4.all_segments[m].source.srcs, 1)

\* the window start leaving merge_commit_threads as it finds it
merge_during_commit_start_keeps_threads(s, r) ==
  [s EXCEPT !.merge_during_commit_events =
               Append(@, [start_time |-> r.ts, end_time |-> None]),
            !.merge_on_commit_thread_name = Some(r.thread)]

\* re_merge_during_commit_start
merge_during_commit_start(s, r) ==
  [s EXCEPT !.merge_during_commit_events =
               Append(@, [start_time |-> r.ts, end_time |-> None]),
            !.merge_on_commit_thread_name = Some(r.thread),
            !.merge_commit_threads = Some({})]

\* the launch handler admitting the new thread whoever issues the line
launch_new_merge_thread_any_issuer(s, r) ==
  IF window_open(s)
  THEN [s EXCEPT !.merge_commit_threads = Some(Val(@) \cup {r.new})]
  ELSE s

\* re_launch_new_merge_thread
launch_new_merge_thread(s, r) ==
  IF Some(r.thread) = s.merge_on_commit_thread_name /\ window_open(s)
  THEN [s EXCEPT !.merge_commit_threads = Some(Val(@) \cup {r.new})]
  ELSE s

\* the end handler passing over an empty window list
merge_during_commit_end_ignores_missing(s, r) ==
  LET s1 == [s EXCEPT !.merge_on_commit_thread_name = None,
                      !.merge_commit_threads = None]
      n == Len(s1.merge_during_commit_events)
  IN IF n = 0 THEN s1
     ELSE [s1 EXCEPT !.merge_during_commit_events[n].end_time = Some(r.ts)]

\* the end handler keeping the set of admitted threads
merge_during_commit_end_keeps_admitted(s, r) ==
  LET s1 == [s EXCEPT !.merge_on_commit_thread_name = None]
      n == Len(s1.merge_during_commit_events)
  IN IF n = 0 THEN Raise(s1)
     ELSE [s1 EXCEPT !.merge_during_commit_events[n].end_time = Some(r.ts)]

\* re_merge_during_commit_end
merge_during_commit_end(s, r) ==
  LET s1 == [s EXCEPT !.merge_on_commit_thread_name = None,
                      !.merge_commit_threads = None]
      n == Len(s1.merge_during_commit_events)
  IN IF n = 0 THEN Raise(s1)                             \* IndexError
     ELSE [s1 EXCEPT !.merge_during_commit_events[n].end_time = Some(r.ts)]

\* re_start_full_flush
start_full_flush(s, r) ==
  [s EXCEPT !.full_flush_events =
               Append(@, [start_time |-> r.ts, end_time |-> None])]

\* the end handler without its assert
end_full_flush_unchecked(s, r) ==
  LET s1 == [s EXCEPT !.commit_thread_name = None]
      n == Len(s1.full_flush_events)
  IN IF n = 0 THEN Raise(s1)
     ELSE [s1 EXCEPT !.full_flush_events[n].end_time = Some(r.ts)]

\* re_end_full_flush
end_full_flush(s, r) ==
  LET s1 == [s EXCEPT !.commit_thread_name = None]
      n == Len(s1.full_flush_events)
  IN IF n = 0 THEN Raise(s1)                             \* IndexError
     ELSE IF s1.full_flush_events[n].end_time # None THEN Raise(s1)  \* assert
     ELSE [s1 EXCEPT !.full_flush_events[n].end_time = Some(r.ts)]

\* re_start_commit
start_commit(s, r) == [s EXCEPT !.commit_thread_name = Some(r.thread)]

\* ----------------------------------------------------------------- driver
\* the preamble overwriting global_start_time on every line
unmatched_preamble_overwrites(s, ts) ==
  [s EXCEPT !.timestamp = Some(ts),
            !.global_start_time = Some(ts),
            !.global_end_time = Some(ts)]

\* what the preamble lines do for a line no template matches
unmatched_preamble(s, ts) == Preamble(s, ts)

\* a line no handler takes: with a preamble (kind "unmatched"), with a
\* preamble whose timestamp fromisoformat rejects, or without a preamble
unmatched(s, r) ==
  CASE r.kind = "unmatched" -> unmatched_preamble(s, r.ts)
    [] r.kind = "bad_timestamp" -> Raise(s)              \* ValueError
    [] OTHER -> s

\* line_number += 1, before the try block
Begin == [State EXCEPT !.line_number = @ + 1]

\* an except clause that prints and goes on with the next line
except_clause_continues(s) == [pc |-> "reading", err |-> Some(s.line_number)]

\* `except: print(unhandled exception on line ...); raise`
except_clause(s) == [pc |-> "aborted", err |-> Some(s.line_number)]

\* one turn of the read loop: the line read classifies as r, and s1 is the
\* state its handler leaves
Step(r, s1) ==
  LET out == IF s1.exc THEN except_clause(s1)
             ELSE [pc |-> "reading", err |-> None]
  IN /\ all_segments' = s1.all_segments
     /\ by_segment_name' = s1.by_segment_name
     /\ by_thread_name' = s1.by_thread_name
     /\ segment' = s1.segment
     /\ timestamp' = s1.timestamp
     /\ global_start_time' = s1.global_start_time
     /\ global_end_time' = s1.global_end_time
     /\ first_checkpoint' = s1.first_checkpoint
     /\ merge_during_commit_events' = s1.merge_during_commit_events
     /\ full_flush_events' = s1.full_flush_events
     /\ merge_on_commit_thread_name' = s1.merge_on_commit_thread_name
     /\ merge_commit_threads' = s1.merge_commit_threads
     /\ commit_thread_name' = s1.commit_thread_name
     /\ line_number' = s1.line_number
     /\ line' = r
     /\ pc' = out.pc
     /\ err' = out.err
     /\ snapshot' = snapshot

\* f.readline() returns a line: the loop is running and the log has one more
Reading(limit) == pc = "reading" /\ line_number < limit

\* --------------------------------------------------------- end of stream
\* Segment.to_verbose_string raises (None or zero in its arithmetic)
to_verbose_string_raises(seg, gs, ge) ==
  \/ seg.max_doc = None
  \/ seg.del_count_reclaimed # None
       /\ Val(seg.max_doc) + Val(seg.del_count_reclaimed) = 0
  \/ seg.born_del_count # None /\ Val(seg.max_doc) = 0
  \/ seg.del_count # None /\ Val(seg.max_doc) = 0
  \/ seg.source.kind = "flush" /\ seg.ram_used_mb # None
       /\ Val(seg.ram_used_mb) = 0
  \/ gs = None
  \/ seg.end_time = None /\ ge = None

\* the segments the final loop reaches: all, or those before the first one
\* whose to_verbose_string raises
finalized_upto(segs, gs, ge) ==
  LET bad == {k \in 1..Len(segs) : to_verbose_string_raises(segs[k], gs, ge)} IN
  IF bad = {} THEN Len(segs)
  ELSE (CHOOSE k \in bad : \A j \in bad : k <= j) - 1

\* the final loop leaving end_time as it finds it
set_end_time_keeps(seg, ge) == seg

\* the final loop ending a live segment at its own start_time
set_end_time_start_time(seg, ge) ==
  IF seg.end_time = None THEN [seg EXCEPT !.end_time = Some(seg.start_time)]
  ELSE seg

\* `if segment.end_time is None: segment.end_time = global_end_time`
set_end_time(seg, ge) ==
  IF seg.end_time = None THEN [seg EXCEPT !.end_time = ge] ELSE seg

\* the loop over Segment.all_segments after the log is read, and the dump
EndOfStream ==
  /\ pc = "reading"
  /\ LET upto == finalized_upto(all_segments, global_start_time, global_end_time)
         segs == [k \in 1..Len(all_segments) |->
                    IF k <= upto THEN set_end_time(all_segments[k], global_end_time)
                    ELSE all_segments[k]]
     IN /\ all_segments' = segs
        /\ segment' = IF Len(all_segments) = 0 THEN segment
                      ELSE IF upto < Len(all_segments) THEN upto + 1
                      ELSE Len(all_segments)
        /\ IF upto = Len(all_segments)
           THEN /\ pc' = "done"
                /\ snapshot' = Some([global_start_time |-> global_start_time,
                                     global_end_time |-> global_end_time,
                                     all_segments |-> segs,
                                     full_flush_events |-> full_flush_events,
                                     merge_during_commit_events |->
                                       merge_during_commit_events])
           ELSE /\ pc' = "aborted"
                /\ snapshot' = snapshot
  /\ UNCHANGED << by_segment_name, by_thread_name, timestamp, global_start_time,
                  global_end_time, first_checkpoint, merge_during_commit_events,
                  full_flush_events, merge_on_commit_thread_name,
                  merge_commit_threads, commit_thread_name, line_number, line,
                  err >>

\* ---------------------------------------------------------------- inputs
\* segment descriptions of checkpoint, merge start and merge commit lines
A0 == Desc("_a", 2, None, "flush")
A1 == Desc("_a", 2, Some(1), "flush")
B1 == Desc("_b", 3, Some(1), "merge")
B2 == Desc("_b", 3, Some(2), "merge")
X0 == Desc("_b", 3, None, "addIndexes")

\* the values the lines of a log are drawn from
Times == 1..MaxTime
Threads == {"T1", "T2"}
Names == {"_a", "_b"}
DocCounts == {2}
DelCounts == {0, 1}
Sizes == {5}
MergedCounts == {4, 5}
CheckpointLists == {<< A0 >>, << A0, B1 >>, << A1, B2 >>, << X0 >>}
MergeLists == {<< >>, << A0 >>, << A0, B1 >>}

\* the timestamps of T a log with non-decreasing timestamps can carry on its
\* next line: those not earlier than the last one parsed
Later(T) == {t \in T : timestamp = None \/ t >= Val(timestamp)}
\* a timestamp more than the checkpoint offset after every one of Times
LateTimes == {CheckpointOffset + MaxTime}

\* ---------------------------------------------------------------- actions
\* One action per record kind: the line read is any line of that kind whose
\* groups are in the given sets.
NowCheckpoint(limit, T, L, C) ==
  /\ Reading(limit)
  /\ \E ts \in T, descs \in L, n \in C :
       LET r == Rec("now_checkpoint", ts, "", "", n, 0, descs, "") IN
         Step(r, now_checkpoint(Begin, r))

SegSize(limit, N) ==
  /\ Reading(limit)
  /\ \E name \in N, size \in Sizes :
       LET r == Rec("seg_size", 0, "", name, size, 0, << >>, "") IN
         Step(r, seg_size(Begin, r))

FlushStart(limit, T, Th, N, C) ==
  /\ Reading(limit)
  /\ \E ts \in T, thread \in Th, name \in N, numDocs \in C :
       LET r == Rec("flush_start", ts, thread, name, numDocs, 0, << >>, "") IN
         Step(r, flush_start(Preamble(Begin, ts), r))

MsecToWrite(limit, T, Th) ==
  /\ Reading(limit)
  /\ \E ts \in T, thread \in Th :
       LET r == Rec("msec_to_write", ts, thread, "", 0, 0, << >>, "") IN
         Step(r, msec_to_write(Preamble(Begin, ts), r))

NewSegmentDeletedDocs(limit, T, Th, C) ==
  /\ Reading(limit)
  /\ \E ts \in T, thread \in Th, n \in C :
       LET r == Rec("new_segment_deleted_docs", ts, thread, "", n, 0, << >>, "") IN
         Step(r, new_segment_deleted_docs(Preamble(Begin, ts), r))

NewFlushedSize(limit, T, Th, N, R) ==
  /\ Reading(limit)
  /\ \E ts \in T, thread \in Th, name \in N, ram \in R, size \in Sizes :
       LET r == Rec("new_flushed_size", ts, thread, name, ram, size, << >>, "") IN
         Step(r, new_flushed_size(Preamble(Begin, ts), r))

FlushTime(limit, T, Th) ==
  /\ Reading(limit)
  /\ \E ts \in T, thread \in Th :
       LET r == Rec("flush_time", ts, thread, "", 0, 0, << >>, "") IN
         Step(r, flush_time(Preamble(Begin, ts), r))

CreateCompoundFile(limit, T, Th) ==
  /\ Reading(limit)
  /\ \E ts \in T, thread \in Th :
       LET r == Rec("create_compound_file", ts, thread, "", 0, 0, << >>, "") IN
         Step(r, create_compound_file(Preamble(Begin, ts), r))

PublishDelgen(limit, T, Th, N) ==
  /\ Reading(limit)
  /\ \E ts \in T, thread \in Th, name \in N :
       LET r == Rec("publish_delgen", ts, thread, name, 0, 0, << >>, "") IN
         Step(r, publish_delgen(Preamble(Begin, ts), r))

NewMergeDeletes(limit, T, Th, C) ==
  /\ Reading(limit)
  /\ \E ts \in T, thread \in Th, n \in C :
       LET r == Rec("new_merge_deletes", ts, thread, "", n, 0, << >>, "") IN
         Step(r, new_merge_deletes(Preamble(Begin, ts), r))

MergeStart(limit, T, Th, N, L) ==
  /\ Reading(limit)
  /\ \E ts \in T, thread \in Th, name \in N, descs \in L :
       LET r == Rec("merge_start", ts, thread, name, 0, 0, descs, "") IN
         Step(r, merge_start(Preamble(Begin, ts), r))

MsecToMerge(limit, T, Th, C) ==
  /\ Reading(limit)
  /\ \E ts \in T, thread \in Th, docs \in C :
       LET r == Rec("msec_to_merge", ts, thread, "", docs, 0, << >>, "") IN
         Step(r, msec_to_merge(Preamble(Begin, ts), r))

MsecToBuildDocmaps(limit, T, Th) ==
  /\ Reading(limit)
  /\ \E ts \in T, thread \in Th :
       LET r == Rec("msec_to_build_docmaps", ts, thread, "", 0, 0, << >>, "") IN
         Step(r, msec_to_build_docmaps(Preamble(Begin, ts), r))

MergeFinish(limit, T, Th, C) ==
  /\ Reading(limit)
  /\ \E ts \in T, thread \in Th, maxDoc \in C, size \in Sizes :
       LET r == Rec("merge_finish", ts, thread, "", maxDoc, size, << >>, "") IN
         Step(r, merge_finish(Preamble(Begin, ts), r))

MergeCommit(limit, T, Th) ==
  /\ Reading(limit)
  /\ \E ts \in T, thread \in Th :
       LET r == Rec("merge_commit", ts, thread, "", 0, 0, << >>, "") IN
         Step(r, merge_commit(Preamble(Begin, ts), r))

MergeDuringCommitStart(limit, T, Th) ==
  /\ Reading(limit)
  /\ \E ts \in T, thread \in Th :
       LET r == Rec("merge_during_commit_start", ts, thread, "", 0, 0, << >>, "") IN
         Step(r, merge_during_commit_start(Preamble(Begin, ts), r))

LaunchNewMergeThread(limit, T, Th, New) ==
  /\ Reading(limit)
  /\ \E ts \in T, thread \in Th, new \in New :
       LET r == Rec("launch_new_merge_thread", ts, thread, "", 0, 0, << >>, new) IN
         Step(r, launch_new_merge_thread(Preamble(Begin, ts), r))

MergeDuringCommitEnd(limit, T, Th) ==
  /\ Reading(limit)
  /\ \E ts \in T, thread \in Th :
       LET r == Rec("merge_during_commit_end", ts, thread, "", 0, 0, << >>, "") IN
         Step(r, merge_during_commit_end(Preamble(Begin, ts), r))

StartFullFlush(limit, T, Th) ==
  /\ Reading(limit)
  /\ \E ts \in T, thread \in Th :
       LET r == Rec("start_full_flush", ts, thread, "", 0, 0, << >>, "") IN
         Step(r, start_full_flush(Preamble(Begin, ts), r))

EndFullFlush(limit, T, Th) ==
  /\ Reading(limit)
  /\ \E ts \in T, thread \in Th :
       LET r == Rec("end_full_flush", ts, thread, "", 0, 0, << >>, "") IN
         Step(r, end_full_flush(Preamble(Begin, ts), r))

StartCommit(limit, T, Th) ==
  /\ Reading(limit)
  /\ \E ts \in T, thread \in Th :
       LET r == Rec("start_commit", ts, thread, "", 0, 0, << >>, "") IN
         Step(r, start_commit(Preamble(Begin, ts), r))

\* a line no template matches: with a preamble, with a preamble whose
\* timestamp does not parse, or without one
Unmatched(limit, T) ==
  /\ Reading(limit)
  /\ \E kind \in {"unmatched", "bad_timestamp", "no_preamble"} :
       \E ts \in (IF kind = "unmatched" THEN T ELSE {0}) :
         LET r == Rec(kind, ts, "", "", 0, 0, << >>, "") IN
           Step(r, unmatched(Begin, r))

\* --------------------------------------------------------- specifications
\* Every record kind, short logs.
Next ==
  \/ NowCheckpoint(MaxLines, Times, CheckpointLists, {1, 2})
  \/ SegSize(MaxLines, Names)
  \/ FlushStart(MaxLines, Times, Threads, Names, DocCounts)
  \/ MsecToWrite(MaxLines, Times, Threads)
  \/ NewSegmentDeletedDocs(MaxLines, Times, Threads, DelCounts)
  \/ NewFlushedSize(MaxLines, Times, Threads, Names, {10})
  \/ FlushTime(MaxLines, Times, Threads)
  \/ CreateCompoundFile(MaxLines, Times, Threads)
  \/ PublishDelgen(MaxLines, Times, {"T1"}, Names)
  \/ NewMergeDeletes(MaxLines, Times, Threads, DelCounts)
  \/ MergeStart(MaxLines, Times, Threads, Names, MergeLists)
  \/ MsecToMerge(MaxLines, Times, Threads, MergedCounts)
  \/ MsecToBuildDocmaps(MaxLines, Times, Threads)
  \/ MergeFinish(MaxLines, Times, Threads, MergedCounts)
  \/ MergeCommit(MaxLines, Times, Threads)
  \/ MergeDuringCommitStart(MaxLines, Times, Threads)
  \/ LaunchNewMergeThread(MaxLines, Times, Threads, Threads)
  \/ MergeDuringCommitEnd(MaxLines, Times, {"T1"})
  \/ StartFullFlush(MaxLines, Times, {"T1"})
  \/ EndFullFlush(MaxLines, Times, {"T1"})
  \/ StartCommit(MaxLines, Times, Threads)
  \/ Unmatched(MaxLines, Times)
  \/ EndOfStream

Spec == Init /\ [][Next]_vars

\* The merge lifecycle, longer logs: a first checkpoint seeds _a and _b, a
\* merge of them into _c runs on T2, later checkpoints and publish records
\* add events to the sources while the merge runs.
NextMerge ==
  \/ NowCheckpoint(MaxMergeLines, Times, {<< A0, B1 >>, << A1, B2 >>}, {2})
  \/ PublishDelgen(MaxMergeLines, Times, {"T1"}, {"_a"})
  \/ MergeStart(MaxMergeLines, Times, {"T2"}, {"_c"}, {<< A0 >>, << A0, B1 >>})
  \/ MsecToMerge(MaxMergeLines, Times, {"T2"}, MergedCounts)
  \/ MergeFinish(MaxMergeLines, Times, {"T2"}, MergedCounts)
  \/ MergeCommit(MaxMergeLines, Times, {"T2"})
  \/ EndOfStream

SpecMerge == Init /\ [][NextMerge]_vars

\* The flush lifecycle, longer logs: thread T1 flushes _a and _b, with
\* checkpoints, publish records and a commit around them.
NextFlush ==
  \/ NowCheckpoint(MaxFlushLines, Times, {<< A0 >>, << A1 >>}, {1})
  \/ FlushStart(MaxFlushLines, Times, {"T1"}, Names, DocCounts)
  \/ MsecToWrite(MaxFlushLines, Times, {"T1"})
  \/ NewSegmentDeletedDocs(MaxFlushLines, Times, {"T1"}, DelCounts)
  \/ NewFlushedSize(MaxFlushLines, Times, {"T1"}, {"_a"}, {10})
  \/ FlushTime(MaxFlushLines, Times, {"T1"})
  \/ CreateCompoundFile(MaxFlushLines, Times, {"T1"})
  \/ PublishDelgen(MaxFlushLines, Times, {"T1"}, {"_a"})
  \/ StartCommit(MaxFlushLines, Times, {"T2"})
  \/ EndFullFlush(MaxFlushLines, Times, {"T2"})
  \/ StartFullFlush(MaxFlushLines, Times, {"T2"})
  \/ EndOfStream

SpecFlush == Init /\ [][NextFlush]_vars

\* Two threads flushing side by side, longer logs: each of T1 and T2 starts
\* flushes of _a and _b, reports sizes and ends flushes, in any interleaving.
NextThreads ==
  \/ FlushStart(MaxThreadLines, Times, Threads, Names, DocCounts)
  \/ NewFlushedSize(MaxThreadLines, Times, Threads, Names, {10})
  \/ NewSegmentDeletedDocs(MaxThreadLines, Times, Threads, {1})
  \/ FlushTime(MaxThreadLines, Times, Threads)
  \/ SegSize(MaxThreadLines, Names)
  \/ EndOfStream

SpecThreads == Init /\ [][NextThreads]_vars

\* Merge on commit, logs with non-decreasing timestamps: T1 opens and closes
\* merge-during-commit windows and launches merge thread T2, which starts and
\* commits merges into _c.
NextWindow ==
  \/ MergeDuringCommitStart(MaxWindowLines, Later(Times), {"T1"})
  \/ LaunchNewMergeThread(MaxWindowLines, Later(Times), {"T1", "T2"}, {"T2"})
  \/ MergeStart(MaxWindowLines, Later(Times), {"T2"}, {"_c"}, {<< >>})
  \/ MergeFinish(MaxWindowLines, Later(Times), {"T2"}, {4})
  \/ MergeCommit(MaxWindowLines, Later(Times), {"T2"})
  \/ MergeDuringCommitEnd(MaxWindowLines, Later(Times), {"T1"})
  \/ EndOfStream

SpecWindow == Init /\ [][NextWindow]_vars

\* Segment lifetimes, logs with non-decreasing timestamps, one of which may
\* come long after the others: checkpoints of _a, a flush of _a on T1, a
\* merge of _a into _c on T2, lines no template matches.
NextOrdered ==
  \/ NowCheckpoint(MaxOrderedLines, Later(Times \cup LateTimes), {<< A0 >>}, {1})
  \/ FlushStart(MaxOrderedLines, Later(Times), {"T1"}, {"_a"}, DocCounts)
  \/ MergeStart(MaxOrderedLines, Later(Times), {"T2"}, {"_c"}, {<< A0 >>})
  \/ MergeFinish(MaxOrderedLines, Later(Times), {"T2"}, {2})
  \/ MergeCommit(MaxOrderedLines, Later(Times \cup LateTimes), {"T2"})
  \/ Unmatched(MaxOrderedLines, Later(Times))
  \/ EndOfStream

SpecOrdered == Init /\ [][NextOrdered]_vars

\* Two threads at work side by side, logs with non-decreasing timestamps: a
\* flush of _a on either thread, a merge of _a into _c on T2, and every
\* thread-scoped progress record on either thread.
NextProgress ==
  \/ FlushStart(MaxProgressLines, Later(Times), Threads, {"_a"}, DocCounts)
  \/ MergeStart(MaxProgressLines, Later(Times), {"T2"}, {"_c"}, {<< A0 >>})
  \/ MsecToWrite(MaxProgressLines, Later(Times), Threads)
  \/ NewSegmentDeletedDocs(MaxProgressLines, Later(Times), Threads, {1})
  \/ NewFlushedSize(MaxProgressLines, Later(Times), Threads, {"_a"}, {10})
  \/ FlushTime(MaxProgressLines, Later(Times), Threads)
  \/ CreateCompoundFile(MaxProgressLines, Later(Times), Threads)
  \/ NewMergeDeletes(MaxProgressLines, Later(Times), Threads, {0})
  \/ MsecToMerge(MaxProgressLines, Later(Times), Threads, {2})
  \/ MsecToBuildDocmaps(MaxProgressLines, Later(Times), Threads)
  \/ MergeFinish(MaxProgressLines, Later(Times), Threads, {2})
  \/ MergeCommit(MaxProgressLines, Later(Times), Threads)
  \/ EndOfStream

SpecProgress == Init /\ [][NextProgress]_vars

\* The two window lists: full-flush windows and merge-during-commit windows
\* opened and closed by T1, in any order.
NextBrackets ==
  \/ StartFullFlush(MaxBracketLines, Times, {"T1"})
  \/ EndFullFlush(MaxBracketLines, Times, {"T1"})
  \/ MergeDuringCommitStart(MaxBracketLines, Times, {"T1"})
  \/ MergeDuringCommitEnd(MaxBracketLines, Times, {"T1"})
  \/ EndOfStream

SpecBrackets == Init /\ [][NextBrackets]_vars

\* ------------------------------------------------------------- properties
\* a step of the read loop: one more line has been processed
LineProcessed == line_number' = line_number + 1

Sorted(events) ==
  \A k \in 1..(Len(events) - 1) : events[k].ts <= events[k + 1].ts

\* C1: in every reachable state, each segment's event log is ordered by
\* timestamp non-decreasing, the state right after a merge commit inserted
\* 'start merge into X' at the merge's start time included.
C1_EventsSorted ==
  \A i \in 1..Len(all_segments) : Sorted(all_segments[i].events)

\* a source holds 'start merge into' in front of a later-stamped event that
\* a line between the merge start and the merge commit had put there
C1_Witness ==
  /\ pc = "reading"
  /\ \E i \in 1..Len(all_segments) :
       LET events == all_segments[i].events IN
       \E k \in 1..(Len(events) - 1) :
         /\ events[k].label = "start merge into"
         /\ all_segments[i].merged_into # None
         /\ all_segments[Val(all_segments[i].merged_into)]
              .start_infostream_line_number < events[k + 1].ln
         /\ events[k + 1].ln < events[k].ln
         /\ events[k].ts < events[k + 1].ts

\* C2: while records are processed (before the end-of-stream loop), every
\* segment has end_time set iff merged_into is set, and a step changes either
\* field only as a merge commit that lists the segment as a source, setting
\* both.
C2_EndTimeWithMergedInto ==
  [][(pc' = "reading" \/ err' # None) =>
       \A i \in 1..Len(all_segments') :
         LET new == all_segments'[i] IN
         /\ (new.end_time # None) <=> (new.merged_into # None)
         /\ (/\ i <= Len(all_segments)
             /\ \/ new.end_time # all_segments[i].end_time
                \/ new.merged_into # all_segments[i].merged_into)
            => /\ line'.kind = "merge_commit"
               /\ by_thread_name[line'.thread] # 0
               /\ new.end_time = Some(line'.ts)
               /\ new.merged_into = Some(by_thread_name[line'.thread])
               /\ LET m == all_segments[by_thread_name[line'.thread]] IN
                  \E k \in 1..Len(m.source.srcs) : m.source.srcs[k] = new.name
    ]_vars

\* a merged source next to a segment that is still alive
C2_Witness ==
  /\ pc = "reading"
  /\ \E i, j \in 1..Len(all_segments) :
       /\ all_segments[i].end_time # None
       /\ all_segments[i].merged_into # None
       /\ all_segments[j].end_time = None
       /\ all_segments[j].merged_into = None

\* C3: no record lowers a del_count already recorded for a segment.
C3_DelCountNeverLowered ==
  [][\A i \in 1..Len(all_segments) :
       all_segments[i].del_count # None =>
         /\ all_segments'[i].del_count # None
         /\ Val(all_segments'[i].del_count) >= Val(all_segments[i].del_count)
    ]_vars

\* C4: while the run has not aborted, a segment created by merge start whose
\* max_doc is known has max_doc = sum of source max_doc - del_count_reclaimed.
C4_MergeMaxDocIsSum ==
  pc # "aborted" =>
    \A i \in 1..Len(all_segments) :
      LET seg == all_segments[i] IN
      (seg.sum_max_doc # None /\ seg.max_doc # None) =>
        Val(seg.max_doc) = Val(seg.sum_max_doc) - Val(seg.del_count_reclaimed)

\* C5: a checkpoint line, first or later, whose declared count differs from
\* the number of descriptions it lists aborts the run at that line.
C5_CountMismatchAborts ==
  [][(/\ LineProcessed
      /\ line'.kind = "now_checkpoint"
      /\ Len(line'.descs) # line'.n)
     => (pc' = "aborted" /\ err' = Some(line_number'))]_vars

\* a later checkpoint, all of whose segments are known, aborted on its count
C5_Witness ==
  /\ pc = "aborted"
  /\ line.kind = "now_checkpoint"
  /\ first_checkpoint = FALSE
  /\ Len(line.descs) > line.n
  /\ \A k \in 1..Len(line.descs) : by_segment_name[line.descs[k].name] # 0

\* C6: a flush start by a thread that has an entry in by_thread_name aborts
\* the run.
C6_BusyThreadFlushStartAborts ==
  [][(/\ LineProcessed
      /\ line'.kind = "flush_start"
      /\ by_thread_name[line'.thread] # 0)
     => (pc' = "aborted" /\ err' = Some(line_number'))]_vars

\* the aborted flush start: its thread is still mapped to the earlier segment
C6_Witness ==
  /\ pc = "aborted"
  /\ line.kind = "flush_start"
  /\ by_thread_name[line.thread] # 0
  /\ all_segments[by_thread_name[line.thread]].start_infostream_line_number
       < line_number

\* C7 as stated: every record that assigns a segment to a thread, merge start
\* included, aborts when the thread already holds a mapping, which stays.
C7_AssignOverLiveMappingAborts ==
  [][(/\ LineProcessed
      /\ line'.kind \in {"flush_start", "merge_start"}
      /\ by_thread_name[line'.thread] # 0)
     => (pc' = "aborted" /\ by_thread_name' = by_thread_name)]_vars

\* C7 amended: a flush start on a mapped thread aborts and leaves the mapping;
\* a merge start makes no check: it maps its thread to the new segment
\* whatever the thread held, and the run goes on; nothing else replaces a
\* mapping.
C7_OnlyMergeStartReplaces ==
  [][LineProcessed =>
       /\ (line'.kind = "flush_start" /\ by_thread_name[line'.thread] # 0)
            => (pc' = "aborted" /\ by_thread_name' = by_thread_name)
       /\ line'.kind = "merge_start"
            => /\ pc' = "reading"
               /\ Len(all_segments') = Len(all_segments) + 1
               /\ by_thread_name'[line'.thread] = Len(all_segments')
       /\ \A t \in ThreadNames :
            (by_thread_name[t] # 0 /\ by_thread_name'[t] \notin {0, by_thread_name[t]})
              => (line'.kind = "merge_start" /\ line'.thread = t)
    ]_vars

\* two lines, each creating a segment on its thread, the second a merge
\* start; only one thread is mapped, so the second replaced the first
C7_Witness ==
  /\ pc = "reading"
  /\ line_number = 2
  /\ line.kind = "merge_start"
  /\ Len(all_segments) = 2
  /\ all_segments[1].start_infostream_line_number = 1
  /\ all_segments[1].source.kind = "flush"
  /\ by_thread_name[line.thread] = 2
  /\ \A t \in ThreadNames : by_thread_name[t] # 0 => t = line.thread

\* C8: while the run has not aborted, no two Segment objects have one name.
C8_UniqueIds ==
  pc # "aborted" =>
    \A i, j \in 1..Len(all_segments) :
      i # j => all_segments[i].name # all_segments[j].name

\* C9: a step is only ever taken from a state in which no exception has been
\* reported, and the step that reports one ends the run without a snapshot:
\* after a fatal condition no record is processed and nothing is written.
C9_FatalStopsTheRun ==
  [][/\ err = None
     /\ err' # None => (pc' = "aborted" /\ snapshot' = None)]_vars

\* the run stopped on an exception with lines of the log still unread
C9_Witness ==
  /\ err # None
  /\ pc = "aborted"
  /\ snapshot = None
  /\ line_number < MaxLines

\* C10 as stated: an unmatched line changes none of the registry, the
\* segments, the thread table, the window lists, the tracking and the global
\* start and end timestamps.
C10_UnmatchedChangesNothing ==
  [][(LineProcessed /\ line'.kind \in {"unmatched", "no_preamble"})
     => UNCHANGED << all_segments, by_segment_name, by_thread_name,
                     merge_during_commit_events, full_flush_events,
                     merge_on_commit_thread_name, merge_commit_threads,
                     commit_thread_name, global_start_time, global_end_time >>
    ]_vars

\* C10 amended: an unmatched line changes none of the registry, the segments,
\* the thread table, the window lists and the tracking; when it carries the
\* timestamp/thread preamble it sets global_end_time to its timestamp and
\* global_start_time too if that was unset (and aborts the run if its
\* timestamp does not parse); without a preamble it changes no timestamp.
C10_UnmatchedChangesOnlyGlobalTimes ==
  [][(LineProcessed /\ line'.kind \in {"unmatched", "no_preamble", "bad_timestamp"})
     => /\ UNCHANGED << all_segments, by_segment_name, by_thread_name,
                        merge_during_commit_events, full_flush_events,
                        merge_on_commit_thread_name, merge_commit_threads,
                        commit_thread_name, first_checkpoint >>
        /\ line'.kind = "unmatched"
             => /\ pc' = "reading"
                /\ global_end_time' = Some(line'.ts)
                /\ global_start_time' = IF global_start_time = None
                                        THEN Some(line'.ts)
                                        ELSE global_start_time
        /\ line'.kind = "no_preamble"
             => (pc' = "reading" /\ UNCHANGED << global_start_time, global_end_time >>)
        /\ line'.kind = "bad_timestamp"
             => (pc' = "aborted" /\ UNCHANGED << global_start_time, global_end_time >>)
    ]_vars

\* an unmatched line with a preamble, after a line that made a segment and
\* set the global times to something else
C10_Witness ==
  /\ pc = "reading"
  /\ line.kind = "unmatched"
  /\ Len(all_segments) > 0
  /\ global_end_time = Some(line.ts)
  /\ global_start_time # None
  /\ global_start_time # Some(line.ts)

\* the tags of a checkpoint's descriptions are all 'merge' or 'flush'
KnownTags(descs) ==
  \A k \in 1..Len(descs) : descs[k].tag \in {"merge", "flush"}

\* C11: the first checkpoint, its descriptions tagged 'merge' or 'flush',
\* appends one Segment per description, in order: source ('merge', []) for a
\* 'merge' tag and 'flush' for a 'flush' tag, max_doc the described count,
\* start_time the checkpoint's timestamp minus 30 seconds, and end_time,
\* merged_into and publish_timestamp None.
C11_FirstCheckpointSeeds ==
  [][(/\ LineProcessed
      /\ line'.kind = "now_checkpoint"
      /\ first_checkpoint
      /\ KnownTags(line'.descs))
     => /\ Len(all_segments') = Len(all_segments) + Len(line'.descs)
        /\ \A i \in 1..Len(all_segments) : all_segments'[i] = all_segments[i]
        /\ \A k \in 1..Len(line'.descs) :
             LET seg == all_segments'[Len(all_segments) + k]
                 d == line'.descs[k]
             IN /\ seg.name = d.name
                /\ seg.source = (IF d.tag = "merge" THEN Source("merge", << >>)
                                 ELSE Source("flush", << >>))
                /\ seg.max_doc = Some(d.max_doc)
                /\ seg.start_time = line'.ts - 30
                /\ seg.end_time = None
                /\ seg.merged_into = None
                /\ seg.publish_timestamp = None
    ]_vars

\* the first checkpoint, read after a flush had started, seeded a flushed and
\* a merged segment behind the flushing one
C11_Witness ==
  /\ pc = "reading"
  /\ line.kind = "now_checkpoint"
  /\ line_number = 2
  /\ Len(line.descs) = 2
  /\ Len(all_segments) = 3
  /\ all_segments[1].start_infostream_line_number = 1
  /\ all_segments[2].source.kind = "flush"
  /\ all_segments[3].source.kind = "merge"

\* C12: a Segment the first checkpoint creates has del_count equal to the
\* deletion count of its description, 0 when the description has none.
C12_FirstCheckpointDelCount ==
  [][(/\ LineProcessed
      /\ line'.kind = "now_checkpoint"
      /\ first_checkpoint
      /\ KnownTags(line'.descs))
     => \A k \in 1..Len(line'.descs) :
          LET seg == all_segments'[Len(all_segments) + k]
              d == line'.descs[k]
          IN seg.del_count = Some(IF d.del # None THEN Val(d.del) ELSE 0)
    ]_vars

\* the descriptions of a checkpoint carry known tags and name known segments,
\* each segment once
Accepted(descs) ==
  /\ KnownTags(descs)
  /\ \A k \in 1..Len(descs) :
       /\ by_segment_name[descs[k].name] # 0
       /\ \A j \in 1..Len(descs) : j # k => descs[j].name # descs[k].name

\* C13: when a checkpoint after the first is processed without abort, each
\* known segment it describes with a deletion count N greater than the
\* del_count recorded for it (or with none recorded) gets exactly one event
\* 'del_count N' appended, stamped with the checkpoint's time and line, and
\* its del_count becomes N.
C13_LaterCheckpointRaisesDelCount ==
  [][(/\ LineProcessed
      /\ line'.kind = "now_checkpoint"
      /\ ~first_checkpoint
      /\ Accepted(line'.descs)
      /\ pc' = "reading")
     => \A k \in 1..Len(line'.descs) :
          LET d == line'.descs[k]
              i == by_segment_name[d.name]
              N == IF d.del # None THEN Val(d.del) ELSE 0
          IN (\/ all_segments[i].del_count = None
              \/ N > Val(all_segments[i].del_count))
             => /\ all_segments'[i].events =
                     Append(all_segments[i].events,
                            Event(line'.ts, "del_count", N, "", line_number'))
                /\ all_segments'[i].del_count = Some(N)
    ]_vars

\* a third checkpoint raised _b's recorded del_count from 1 to 2: the last
\* two events of _b are 'del_count 1' and 'del_count 2'
C13_Witness ==
  /\ pc = "reading"
  /\ line.kind = "now_checkpoint"
  /\ by_segment_name["_b"] # 0
  /\ LET seg == all_segments[by_segment_name["_b"]]
         n == Len(seg.events)
     IN /\ n >= 2
        /\ seg.del_count = Some(2)
        /\ seg.events[n] = Event(line.ts, "del_count", 2, "", line_number)
        /\ seg.events[n - 1].label = "del_count"
        /\ seg.events[n - 1].n = 1

\* C14: a checkpoint after the first that describes a segment name missing
\* from by_segment_name aborts the run at that line.
C14_UnknownSegmentAborts ==
  [][(/\ LineProcessed
      /\ line'.kind = "now_checkpoint"
      /\ ~first_checkpoint
      /\ \E k \in 1..Len(line'.descs) : by_segment_name[line'.descs[k].name] = 0)
     => (pc' = "aborted" /\ err' = Some(line_number'))]_vars

\* the aborted later checkpoint is wrong in nothing but the unknown name
C14_Witness ==
  /\ pc = "aborted"
  /\ line.kind = "now_checkpoint"
  /\ ~first_checkpoint
  /\ KnownTags(line.descs)
  /\ Len(line.descs) = line.n
  /\ \E k \in 1..Len(line.descs) : by_segment_name[line.descs[k].name] = 0
  /\ \E k \in 1..Len(line.descs) : by_segment_name[line.descs[k].name] # 0

\* C15: commit_thread_name is set by every 'commit: start' line, cleared by
\* every 'finishFullFlush success=true' line and left alone by every other
\* line, so it is set exactly when a commit start has been read and no full
\* flush end since; and a flush start line creates a segment whose source is
\* 'flush-commit' exactly when it is set, whatever the threads of the lines.
C15_FlushDuringCommit ==
  [][LineProcessed =>
       /\ line'.kind = "start_commit" => commit_thread_name' # None
       /\ line'.kind = "end_full_flush" => commit_thread_name' = None
       /\ line'.kind \notin {"start_commit", "end_full_flush"}
            => commit_thread_name' = commit_thread_name
       /\ line'.kind = "flush_start"
            => /\ Len(all_segments') = Len(all_segments) + 1
               /\ all_segments'[Len(all_segments')].source.kind =
                    (IF commit_thread_name # None THEN "flush-commit" ELSE "flush")
    ]_vars

\* T1 started a flush while the commit T2 began was waiting for its full
\* flush to end: the segment is tagged 'flush-commit'
C15_Witness ==
  /\ pc = "reading"
  /\ line.kind = "flush_start"
  /\ commit_thread_name # None
  /\ commit_thread_name # Some(line.thread)
  /\ Len(full_flush_events) > 0
  /\ full_flush_events[Len(full_flush_events)].end_time = None
  /\ all_segments[Len(all_segments)].source.kind = "flush-commit"
  /\ all_segments[Len(all_segments)].start_infostream_line_number = line_number

\* C16: (1) a flush start of S with numDocs=N on a free thread T, no commit
\* active, creates a Segment S with source 'flush', max_doc N and start_time
\* the line's timestamp, and maps both S and T to it; (2) no line changes the
\* name, source, start_time or known max_doc of a segment, and a line of
\* another thread leaves T's mapping alone; (3) a flushed-size report for S
\* on T that is processed without abort finds S and T mapped to one segment
\* and sets its size_mb to newFlushedSize and its ram_used_mb to ramUsed.
\* Together: after the report, the registry's Segment S has source 'flush',
\* max_doc N, the flush start's timestamp, and the reported sizes, whatever
\* other threads' lines came in between.
C16_FlushThenFlushedSize ==
  [][LineProcessed =>
       /\ (/\ line'.kind = "flush_start"
           /\ commit_thread_name = None
           /\ by_thread_name[line'.thread] = 0)
          => /\ pc' = "reading"
             /\ Len(all_segments') = Len(all_segments) + 1
             /\ by_segment_name'[line'.name] = Len(all_segments')
             /\ by_thread_name'[line'.thread] = Len(all_segments')
             /\ LET seg == all_segments'[Len(all_segments')] IN
                  /\ seg.name = line'.name
                  /\ seg.source = Source("flush", << >>)
                  /\ seg.max_doc = Some(line'.n)
                  /\ seg.start_time = line'.ts
       /\ \A i \in 1..Len(all_segments) :
            /\ all_segments'[i].name = all_segments[i].name
            /\ all_segments'[i].source = all_segments[i].source
            /\ all_segments'[i].start_time = all_segments[i].start_time
            /\ all_segments[i].max_doc # None
                 => all_segments'[i].max_doc = all_segments[i].max_doc
       /\ \A t \in ThreadNames :
            t # line'.thread => by_thread_name'[t] = by_thread_name[t]
       /\ (line'.kind = "new_flushed_size" /\ pc' = "reading")
          => /\ by_segment_name[line'.name] # 0
             /\ by_segment_name[line'.name] = by_thread_name[line'.thread]
             /\ by_segment_name' = by_segment_name
             /\ LET seg == all_segments'[by_segment_name[line'.name]] IN
                  /\ seg.size_mb = Some(line'.m)
                  /\ seg.ram_used_mb = Some(line'.n)
    ]_vars

\* T1's flushed-size report for its segment came after lines of T2, which
\* started a flush of another segment and reported its deleted docs
C16_Witness ==
  /\ pc = "reading"
  /\ line.kind = "new_flushed_size"
  /\ line_number = 4
  /\ by_segment_name[line.name] # 0
  /\ LET seg == all_segments[by_segment_name[line.name]] IN
       /\ seg.start_infostream_line_number = 1
       /\ seg.source.kind = "flush"
       /\ seg.size_mb = Some(line.m)
       /\ seg.ram_used_mb = Some(line.n)
       /\ seg.max_doc # None
  /\ \E t \in ThreadNames :
       /\ t # line.thread
       /\ by_thread_name[t] # 0
       /\ all_segments[by_thread_name[t]].start_infostream_line_number = 2
       /\ all_segments[by_thread_name[t]].del_count # None

\* C17: a merge commit line on a thread mapped to a merge segment M aborts
\* the run if a name in M's source list is missing from by_segment_name; when
\* the line is processed without abort, every segment M's source list names
\* has end_time the line's timestamp and merged_into M, M has
\* publish_timestamp the line's timestamp, and M's events have 'light' of
\* this line appended.
C17_MergeCommitRetiresSources ==
  [][(/\ LineProcessed
      /\ line'.kind = "merge_commit"
      /\ by_thread_name[line'.thread] # 0
      /\ all_segments[by_thread_name[line'.thread]].source.kind = "merge")
     => LET m == by_thread_name[line'.thread]
            srcs == all_segments[m].source.srcs
            light == Event(line'.ts, "light", 0, "", line_number')
        IN /\ (\E k \in 1..Len(srcs) : by_segment_name[srcs[k]] = 0)
                => (pc' = "aborted" /\ err' = Some(line_number'))
           /\ pc' = "reading"
                => /\ \A k \in 1..Len(srcs) :
                        LET old == all_segments'[by_segment_name[srcs[k]]] IN
                          /\ old.end_time = Some(line'.ts)
                          /\ old.merged_into = Some(m)
                   /\ all_segments'[m].publish_timestamp = Some(line'.ts)
                   /\ (\A k \in 1..Len(srcs) : by_segment_name[srcs[k]] # m)
                        => all_segments'[m].events =
                             Append(all_segments[m].events, light)
    ]_vars

\* the commit of a merge of two segments: both sources point at the merge
\* segment and end at the commit's time, when the merge segment was lit
C17_Witness ==
  /\ pc = "reading"
  /\ line.kind = "merge_commit"
  /\ by_thread_name[line.thread] # 0
  /\ LET m == by_thread_name[line.thread]
         M == all_segments[m]
     IN /\ M.source.kind = "merge"
        /\ Len(M.source.srcs) = 2
        /\ M.publish_timestamp = Some(line.ts)
        /\ M.events[Len(M.events)].label = "light"
        /\ \A k \in 1..2 :
             /\ by_segment_name[M.source.srcs[k]] \notin {0, m}
             /\ all_segments[by_segment_name[M.source.srcs[k]]].merged_into = Some(m)
             /\ all_segments[by_segment_name[M.source.srcs[k]]].end_time = Some(line.ts)
        /\ by_segment_name[M.source.srcs[1]] # by_segment_name[M.source.srcs[2]]

\* C18: a merge start line whose description list names a segment missing
\* from by_segment_name aborts the run at that line.
C18_MergeStartUnknownSourceAborts ==
  [][(/\ LineProcessed
      /\ line'.kind = "merge_start"
      /\ \E k \in 1..Len(line'.descs) : by_segment_name[line'.descs[k].name] = 0)
     => pc' = "aborted"]_vars

\* C19 as stated: a merge commit of a segment carrying a pending generation
\* whose window has no end_time records ('success', commit time - window
\* start).
C19_OpenWindowIsSuccess ==
  [][(/\ LineProcessed
      /\ line'.kind = "merge_commit"
      /\ by_thread_name[line'.thread] # 0
      /\ all_segments[by_thread_name[line'.thread]].merge_during_commit.kind = "int")
     => LET m == by_thread_name[line'.thread]
            gen == all_segments[m].merge_during_commit.v
            window == merge_during_commit_events[gen]
        IN window.end_time = None
             => all_segments'[m].merge_during_commit =
                  MDC("success", line'.ts - window.start_time)
    ]_vars

\* C19 amended: a merge commit of a segment carrying a pending generation
\* records ('success', commit time - window start) when that generation is
\* the latest window and the window has no end_time, and ('timeout', commit
\* time - window start) otherwise, a window left without end_time behind a
\* newer one included; in a log of non-decreasing timestamps the elapsed
\* value is >= 0.
C19_LatestOpenWindowIsSuccess ==
  [][(/\ LineProcessed
      /\ line'.kind = "merge_commit"
      /\ by_thread_name[line'.thread] # 0
      /\ all_segments[by_thread_name[line'.thread]].merge_during_commit.kind = "int")
     => LET m == by_thread_name[line'.thread]
            gen == all_segments[m].merge_during_commit.v
            window == merge_during_commit_events[gen]
            elapsed == line'.ts - window.start_time
        IN /\ elapsed >= 0
           /\ all_segments'[m].merge_during_commit =
                (IF gen = Len(merge_during_commit_events) /\ window.end_time = None
                 THEN MDC("success", elapsed)
                 ELSE MDC("timeout", elapsed))
    ]_vars

\* a merge on a launched thread committed later than its window opened, the
\* window still open: success with a positive elapsed time
C19_Witness ==
  /\ line.kind = "merge_commit"
  /\ by_thread_name[line.thread] # 0
  /\ Len(merge_during_commit_events) = 1
  /\ merge_during_commit_events[1].end_time = None
  /\ merge_during_commit_events[1].start_time < line.ts
  /\ all_segments[by_thread_name[line.thread]].merge_during_commit =
       MDC("success", line.ts - merge_during_commit_events[1].start_time)

\* segs has no segment that ends before it starts
EndsAfterStart(segs) ==
  \A i \in 1..Len(segs) :
    segs[i].end_time = None \/ Val(segs[i].end_time) >= segs[i].start_time

\* C20: while the run has not aborted, and in the snapshot, every segment's
\* end_time is None or not earlier than its start_time.
C20_EndTimeNotBeforeStart ==
  /\ pc # "aborted" => EndsAfterStart(all_segments)
  /\ snapshot # None => EndsAfterStart(Val(snapshot).all_segments)

\* C21: the end-of-stream step that writes the snapshot gives every segment
\* whose end_time is None the global end timestamp as end_time and changes
\* nothing else of it, merged_into included; a segment that has an end_time
\* is left as it is; the snapshot holds these segments, each with an
\* end_time.
C21_FinalizationSetsEndTime ==
  [][pc' = "done" =>
       /\ Len(all_segments') = Len(all_segments)
       /\ \A i \in 1..Len(all_segments) :
            /\ all_segments[i].end_time = None
                 => all_segments'[i] =
                      [all_segments[i] EXCEPT !.end_time = global_end_time]
            /\ all_segments[i].end_time # None
                 => all_segments'[i] = all_segments[i]
            /\ all_segments'[i].end_time # None
       /\ snapshot' # None
       /\ Val(snapshot').all_segments = all_segments'
       /\ Val(snapshot').global_end_time = global_end_time
    ]_vars

\* the snapshot of a log in which one segment was merged and others lived on
C21_Witness ==
  /\ pc = "done"
  /\ snapshot # None
  /\ \E i, j \in 1..Len(Val(snapshot).all_segments) :
       LET segs == Val(snapshot).all_segments IN
       /\ segs[i].merged_into # None
       /\ segs[i].end_time # None
       /\ segs[j].merged_into = None
       /\ segs[j].end_time = global_end_time

\* C22 as stated: in the snapshot every segment has end_time set iff it has
\* merged_into set.
C22_SnapshotEndTimeIffMergedInto ==
  snapshot # None =>
    \A i \in 1..Len(Val(snapshot).all_segments) :
      LET seg == Val(snapshot).all_segments[i] IN
      (seg.end_time # None) <=> (seg.merged_into # None)

\* C22 amended: in the snapshot every segment has end_time set; a segment
\* with merged_into set was ended by its merge commit, and a segment with
\* merged_into unset has the global end timestamp as end_time.
C22_SnapshotEndTimeAlwaysSet ==
  snapshot # None =>
    \A i \in 1..Len(Val(snapshot).all_segments) :
      LET seg == Val(snapshot).all_segments[i] IN
      /\ seg.end_time # None
      /\ seg.merged_into = None => seg.end_time = Val(snapshot).global_end_time
      /\ seg.merged_into # None
           => \E k \in 1..Len(seg.events) :
                /\ seg.events[k].label = "start merge into"
                /\ seg.events[k].seg =
                     Val(snapshot).all_segments[Val(seg.merged_into)].name

\* a snapshot with a live segment that started after the last timestamp of
\* the log and a merged one
C22_Witness ==
  /\ snapshot # None
  /\ \E i, j \in 1..Len(Val(snapshot).all_segments) :
       LET segs == Val(snapshot).all_segments IN
       /\ segs[i].merged_into = None
       /\ segs[i].source.kind = "merge"
       /\ segs[i].end_time = Val(snapshot).global_end_time
       /\ segs[j].merged_into = Some(i)

\* C23: a line whose handler is an add_event on its thread's segment aborts
\* the run and leaves the segment's events as they were when its timestamp
\* is earlier than that of the segment's last event; otherwise, an equal
\* timestamp included, the event is appended and the run goes on.
C23_AppendBackwardsAborts ==
  [][(/\ LineProcessed
      /\ line'.kind \in {"msec_to_write", "create_compound_file",
                         "msec_to_build_docmaps"}
      /\ by_thread_name[line'.thread] # 0)
     => LET i == by_thread_name[line'.thread]
            events == all_segments[i].events
            label == CASE line'.kind = "msec_to_write" -> "done write"
                       [] line'.kind = "create_compound_file" -> "create compound file"
                       [] OTHER -> "build merge sorted DocMaps"
        IN IF Len(events) > 0 /\ line'.ts < events[Len(events)].ts
           THEN /\ pc' = "aborted"
                /\ err' = Some(line_number')
                /\ all_segments'[i].events = events
           ELSE /\ pc' = "reading"
                /\ all_segments'[i].events =
                     Append(events, Event(line'.ts, label, 0, "", line_number'))
    ]_vars

\* the run aborted on an append earlier than the last event of a log that
\* holds two events of one timestamp
C23_Witness ==
  /\ pc = "aborted"
  /\ line.kind \in {"msec_to_write", "create_compound_file"}
  /\ by_thread_name[line.thread] # 0
  /\ LET events == all_segments[by_thread_name[line.thread]].events IN
       /\ Len(events) = 2
       /\ events[1].ts = events[2].ts
       /\ line.ts < events[2].ts

\* C24: a publish line naming a known segment S that is processed without
\* abort sets the publish_timestamp of S to its timestamp and changes the
\* publish_timestamp of no other segment.
C24_PublishSetsNamedSegment ==
  [][(/\ LineProcessed
      /\ line'.kind = "publish_delgen"
      /\ by_segment_name[line'.name] # 0
      /\ pc' = "reading")
     => \A i \in 1..Len(all_segments) :
          all_segments'[i].publish_timestamp =
            (IF i = by_segment_name[line'.name] THEN Some(line'.ts)
             ELSE all_segments[i].publish_timestamp)
    ]_vars

\* C25: a merge commit of M that is processed without abort gives the log of
\* each source one event 'start merge into M' whose timestamp is the
\* start_time of M; it stands after every event the log held with a
\* timestamp <= that start_time and before every one with a later
\* timestamp, and the events the log held keep their order (the 'merged
\* into' event of the commit follows at the end).
C25_StartMergeEventInserted ==
  [][(/\ LineProcessed
      /\ line'.kind = "merge_commit"
      /\ pc' = "reading"
      /\ by_thread_name[line'.thread] # 0)
     => LET m == by_thread_name[line'.thread]
            M == all_segments[m]
        IN \A k \in 1..Len(M.source.srcs) :
             LET old == by_segment_name[M.source.srcs[k]]
                 events == all_segments[old].events
                 new == all_segments'[old].events
                 p == Cardinality({j \in 1..Len(events) :
                                     events[j].ts <= M.start_time})
             IN /\ Len(new) = Len(events) + 2
                /\ \A j \in 1..p :
                     new[j] = events[j] /\ events[j].ts <= M.start_time
                /\ new[p + 1] = Event(M.start_time, "start merge into", 0,
                                      M.name, line_number')
                /\ \A j \in (p + 1)..Len(events) :
                     new[j + 1] = events[j] /\ events[j].ts > M.start_time
                /\ new[Len(new)].label = "merged into"
    ]_vars

\* a committed merge whose source held an event of the merge's start_time:
\* the 'start merge into' event stands right after it
C25_Witness ==
  /\ pc = "reading"
  /\ line.kind = "merge_commit"
  /\ \E i \in 1..Len(all_segments) :
       \E k \in 2..Len(all_segments[i].events) :
         LET events == all_segments[i].events IN
         /\ events[k].label = "start merge into"
         /\ events[k - 1].label # "start merge into"
         /\ events[k - 1].ts = events[k].ts
         /\ events[k].ln = line_number

\* C26: the segment made by a merge start carries a pending generation
\* exactly when the last merge-during-commit window is open and the line's
\* thread is in the set of admitted threads; the generation is then the
\* position of that open window in the window list; otherwise the segment
\* carries none.
C26_GenerationIffAdmittedInOpenWindow ==
  [][(/\ LineProcessed
      /\ line'.kind = "merge_start"
      /\ pc' = "reading")
     => LET events == merge_during_commit_events
            open == /\ Len(events) > 0
                    /\ events[Len(events)].end_time = None
            admitted == /\ merge_commit_threads # None
                        /\ line'.thread \in Val(merge_commit_threads)
            new == all_segments'[Len(all_segments')]
        IN /\ Len(all_segments') = Len(all_segments) + 1
           /\ new.name = line'.name
           /\ new.merge_during_commit =
                (IF open /\ admitted THEN MDC("int", Len(events)) ELSE MDCNone)
           /\ new.merge_during_commit.kind = "int"
                => events[new.merge_during_commit.v].end_time = None
    ]_vars

\* a merge started on an admitted thread in the second window of the log
C26_Witness ==
  /\ pc = "reading"
  /\ line.kind = "merge_start"
  /\ Len(merge_during_commit_events) = 2
  /\ merge_during_commit_events[1].end_time # None
  /\ all_segments[Len(all_segments)].merge_during_commit = MDC("int", 2)

\* C27: a 'launch new thread' line adds the new thread to the admitted set
\* exactly when the last window is open and the line's thread is the thread
\* that opened it; any other launch line changes nothing, and a merge
\* started on a thread that was not admitted gets no generation, open window
\* or not.
C27_LaunchAdmitsOnlyFromOpener ==
  [][/\ (LineProcessed /\ line'.kind = "launch_new_merge_thread")
          => /\ pc' = "reading"
             /\ merge_commit_threads' =
                  (IF /\ Len(merge_during_commit_events) > 0
                      /\ merge_during_commit_events[
                           Len(merge_during_commit_events)].end_time = None
                      /\ merge_on_commit_thread_name = Some(line'.thread)
                   THEN Some(Val(merge_commit_threads) \cup {line'.new})
                   ELSE merge_commit_threads)
             /\ merge_on_commit_thread_name' = merge_on_commit_thread_name
             /\ merge_during_commit_events' = merge_during_commit_events
             /\ all_segments' = all_segments
     /\ (/\ LineProcessed
         /\ line'.kind = "merge_start"
         /\ pc' = "reading"
         /\ \/ merge_commit_threads = None
            \/ line'.thread \notin Val(merge_commit_threads))
          => all_segments'[Len(all_segments')].merge_during_commit = MDCNone
    ]_vars

\* a launch line issued in an open window by a thread that did not open it
C27_Witness ==
  /\ pc = "reading"
  /\ line.kind = "launch_new_merge_thread"
  /\ Len(merge_during_commit_events) > 0
  /\ merge_during_commit_events[Len(merge_during_commit_events)].end_time = None
  /\ merge_on_commit_thread_name # None
  /\ merge_on_commit_thread_name # Some(line.thread)
  /\ merge_commit_threads = Some({})

\* C28: when a merge segment with pending generation g commits and window g
\* of the list has been closed, the outcome is timeout with the commit
\* timestamp minus the start_time of window g (index g - 1 from 0), and
\* window g is the window the merge started in: the merge's start_time lies
\* between the window's start_time and end_time, and not after the
\* start_time of the window that follows.
C28_TimeoutMeasuredFromOwnWindow ==
  [][(/\ LineProcessed
      /\ line'.kind = "merge_commit"
      /\ pc' = "reading"
      /\ by_thread_name[line'.thread] # 0
      /\ all_segments[by_thread_name[line'.thread]].merge_during_commit.kind = "int"
      /\ merge_during_commit_events[
           all_segments[by_thread_name[line'.thread]].merge_during_commit.v
         ].end_time # None)
     => LET m == by_thread_name[line'.thread]
            g == all_segments[m].merge_during_commit.v
            events == merge_during_commit_events
        IN /\ all_segments'[m].merge_during_commit =
                MDC("timeout", line'.ts - events[g].start_time)
           /\ events[g].start_time <= all_segments[m].start_time
           /\ all_segments[m].start_time <= Val(events[g].end_time)
           /\ g < Len(events)
                => all_segments[m].start_time <= events[g + 1].start_time
    ]_vars

\* a timeout recorded after the merge's window was closed and a later window
\* with another start_time was opened
C28_Witness ==
  /\ pc = "reading"
  /\ line.kind = "merge_commit"
  /\ Len(merge_during_commit_events) = 2
  /\ merge_during_commit_events[1].end_time # None
  /\ merge_during_commit_events[2].start_time
       # merge_during_commit_events[1].start_time
  /\ by_thread_name[line.thread] # 0
  /\ all_segments[by_thread_name[line.thread]].merge_during_commit =
       MDC("timeout", line.ts - merge_during_commit_events[1].start_time)

\* C29: a 'done waiting for merges during commit' line sets the end_time of
\* the last window of the list, clears the window's owner and the admitted
\* set and changes no segment (pending generations stay); a merge started
\* while the last window is closed gets no generation.
C29_WindowEndClosesLastWindow ==
  [][/\ (/\ LineProcessed
         /\ line'.kind = "merge_during_commit_end"
         /\ Len(merge_during_commit_events) > 0)
          => /\ pc' = "reading"
             /\ merge_during_commit_events' =
                  [merge_during_commit_events
                     EXCEPT ![Len(merge_during_commit_events)].end_time =
                              Some(line'.ts)]
             /\ merge_on_commit_thread_name' = None
             /\ merge_commit_threads' = None
             /\ all_segments' = all_segments
     /\ (/\ LineProcessed
         /\ line'.kind = "merge_start"
         /\ pc' = "reading"
         /\ Len(merge_during_commit_events) > 0
         /\ merge_during_commit_events[
              Len(merge_during_commit_events)].end_time # None)
          => all_segments'[Len(all_segments')].merge_during_commit = MDCNone
    ]_vars

\* a window closed while a merge started in it is still pending
C29_Witness ==
  /\ pc = "reading"
  /\ line.kind = "merge_during_commit_end"
  /\ merge_commit_threads = None
  /\ merge_during_commit_events[Len(merge_during_commit_events)].end_time
       = Some(line.ts)
  /\ \E i \in 1..Len(all_segments) :
       all_segments[i].merge_during_commit.kind = "int"

\* C30: a 'finishFullFlush success=true' line clears the commit thread; when
\* the last full-flush window exists and is open the line sets its end_time
\* and the run goes on, otherwise the run aborts with the windows as they
\* were; no other window and no segment changes.
C30_EndFullFlushClosesOpenWindow ==
  [][(LineProcessed /\ line'.kind = "end_full_flush")
     => LET n == Len(full_flush_events) IN
        /\ commit_thread_name' = None
        /\ all_segments' = all_segments
        /\ merge_during_commit_events' = merge_during_commit_events
        /\ IF n > 0 /\ full_flush_events[n].end_time = None
           THEN /\ pc' = "reading"
                /\ full_flush_events' =
                     [full_flush_events EXCEPT ![n].end_time = Some(line'.ts)]
           ELSE /\ pc' = "aborted"
                /\ full_flush_events' = full_flush_events
    ]_vars

\* the second full-flush window of the log closed by its line, during a
\* commit
C30_Witness ==
  /\ pc = "reading"
  /\ line.kind = "end_full_flush"
  /\ Len(full_flush_events) = 2
  /\ full_flush_events[1].end_time # None
  /\ full_flush_events[2].end_time = Some(line.ts)
  /\ commit_thread_name = None

\* C31: a flush time line of a mapped thread T removes T's entry of
\* by_thread_name and nothing else of the table; no other flush-progress
\* line (done write, new-segment deleted docs, flushed size, compound file,
\* publish) changes the table; a flush start on T is accepted exactly when
\* T has no entry.
C31_OnlyFlushTimeFreesThread ==
  [][LineProcessed =>
       /\ (line'.kind = "flush_time" /\ by_thread_name[line'.thread] # 0)
            => /\ pc' = "reading"
               /\ by_thread_name' = [by_thread_name EXCEPT ![line'.thread] = 0]
       /\ line'.kind \in {"msec_to_write", "new_segment_deleted_docs",
                          "new_flushed_size", "create_compound_file",
                          "publish_delgen"}
            => by_thread_name' = by_thread_name
       /\ line'.kind = "flush_start"
            => (pc' = "reading" <=> by_thread_name[line'.thread] = 0)
    ]_vars

\* a second flush start accepted on a thread whose first flushed segment got
\* a progress event and then its flush time line
C31_Witness ==
  /\ pc = "reading"
  /\ line.kind = "flush_start"
  /\ by_thread_name[line.thread] = Len(all_segments)
  /\ \E i \in 1..(Len(all_segments) - 1) :
       /\ all_segments[i].source.kind = "flush"
       /\ all_segments[i].start_time >= 1
       /\ Len(all_segments[i].events) = 1
       /\ all_segments[i].events[1].label = "done write"

\* C32: when a checkpoint follows a checkpoint, a segment it describes with
\* the deletion count the previous checkpoint showed for it keeps its
\* events and its del_count.
C32_SameCountChangesNothing ==
  [][(/\ LineProcessed
      /\ pc = "reading"
      /\ line.kind = "now_checkpoint"
      /\ line'.kind = "now_checkpoint"
      /\ pc' = "reading")
     => \A j \in 1..Len(line.descs), k \in 1..Len(line'.descs) :
          LET e == line.descs[j]
              d == line'.descs[k]
              i == by_segment_name[d.name]
          IN (d.name = e.name /\ d.del = e.del /\ i # 0)
             => /\ all_segments'[i].events = all_segments[i].events
                /\ all_segments'[i].del_count = all_segments[i].del_count
    ]_vars

\* C39: in the snapshot the global start timestamp is <= the start_time of
\* every segment and every end_time is <= the global end timestamp (logs
\* with non-decreasing timestamps).
C39_SnapshotWithinGlobalTimes ==
  snapshot # None =>
    \A i \in 1..Len(Val(snapshot).all_segments) :
      LET seg == Val(snapshot).all_segments[i] IN
      /\ Val(Val(snapshot).global_start_time) <= seg.start_time
      /\ Val(seg.end_time) <= Val(Val(snapshot).global_end_time)

\* C33: a new-merge-deletes line of a mapped thread T sets born_del_count of
\* T's segment to its number and changes nothing else: not that segment's
\* del_count or events, no other segment, no table.
C33_NewMergeDeletesSetsBornOnly ==
  [][(/\ LineProcessed
      /\ line'.kind = "new_merge_deletes"
      /\ by_thread_name[line'.thread] # 0)
     => /\ pc' = "reading"
        /\ all_segments' =
             [all_segments EXCEPT ![by_thread_name[line'.thread]].born_del_count =
                                    Some(line'.n)]
        /\ by_thread_name' = by_thread_name
        /\ by_segment_name' = by_segment_name
    ]_vars

\* a new-merge-deletes line on a segment that has a del_count and an event:
\* born_del_count is the line's, del_count and the event stay
C33_Witness ==
  /\ pc = "reading"
  /\ line.kind = "new_merge_deletes"
  /\ by_thread_name[line.thread] # 0
  /\ LET seg == all_segments[by_thread_name[line.thread]] IN
       /\ seg.born_del_count = Some(line.n)
       /\ seg.del_count # None
       /\ seg.del_count # Some(line.n)
       /\ Len(seg.events) > 0

\* the thread-scoped progress records
ProgressKinds ==
  {"msec_to_write", "new_segment_deleted_docs", "create_compound_file",
   "msec_to_merge", "msec_to_build_docmaps", "merge_finish"}

\* C34: a thread-scoped progress line of thread T, whatever lines of other
\* threads came before, changes no segment but the one by_thread_name maps T
\* to, makes no segment and changes no table.
C34_ProgressTouchesOwnSegmentOnly ==
  [][(LineProcessed /\ line'.kind \in ProgressKinds)
     => /\ Len(all_segments') = Len(all_segments)
        /\ \A i \in 1..Len(all_segments) :
             i # by_thread_name[line'.thread]
               => all_segments'[i] = all_segments[i]
        /\ by_thread_name' = by_thread_name
        /\ by_segment_name' = by_segment_name
    ]_vars

\* two threads hold a segment each, and a progress line of the thread whose
\* segment is the older one changed that segment
C34_Witness ==
  /\ pc = "reading"
  /\ line.kind \in ProgressKinds
  /\ by_thread_name[line.thread] # 0
  /\ \E other \in Threads :
       /\ other # line.thread
       /\ by_thread_name[other] > by_thread_name[line.thread]
  /\ LET seg == all_segments[by_thread_name[line.thread]] IN
       /\ Len(seg.events) > 0
       /\ seg.events[Len(seg.events)].ln = line_number

\* C35: merge_commit_threads is a set exactly when the window list is
\* non-empty and its last window is open.
C35_AdmittedSetIffWindowOpen ==
  (merge_commit_threads # None)
    <=> (/\ Len(merge_during_commit_events) > 0
         /\ merge_during_commit_events[
              Len(merge_during_commit_events)].end_time = None)

\* a merge started in the second window of the log on a thread admitted in
\* that window
C35_Witness ==
  /\ line.kind = "merge_start"
  /\ Len(merge_during_commit_events) = 2
  /\ merge_during_commit_events[1].end_time # None
  /\ merge_during_commit_events[2].end_time = None
  /\ merge_commit_threads = Some({line.thread})

ThreadScopedKinds ==
  ProgressKinds \cup {"new_flushed_size", "flush_time", "new_merge_deletes",
                      "merge_commit"}

\* C37: a thread-scoped line of a thread without an entry in by_thread_name
\* aborts the run and changes no segment and no table.
C37_UnmappedThreadAborts ==
  [][(/\ LineProcessed
      /\ line'.kind \in ThreadScopedKinds
      /\ by_thread_name[line'.thread] = 0)
     => /\ pc' = "aborted"
        /\ err' = Some(line_number')
        /\ all_segments' = all_segments
        /\ by_thread_name' = by_thread_name
        /\ by_segment_name' = by_segment_name
    ]_vars

\* the run aborted on a thread-scoped line of a thread without an entry
\* while the other thread holds a segment
C37_Witness ==
  /\ pc = "aborted"
  /\ line.kind \in ThreadScopedKinds
  /\ by_thread_name[line.thread] = 0
  /\ \E other \in Threads : by_thread_name[other] # 0

\* C38: a finishFullFlush line aborts the run when the full-flush window
\* list is empty or its last window has an end_time; a 'done waiting for
\* merges during commit' line aborts the run when the merge-during-commit
\* window list is empty.
C38_CloseWithoutOpenWindowAborts ==
  [][LineProcessed =>
       /\ (/\ line'.kind = "end_full_flush"
           /\ \/ Len(full_flush_events) = 0
              \/ full_flush_events[Len(full_flush_events)].end_time # None)
            => (pc' = "aborted" /\ err' = Some(line_number'))
       /\ (/\ line'.kind = "merge_during_commit_end"
           /\ Len(merge_during_commit_events) = 0)
            => (pc' = "aborted" /\ err' = Some(line_number'))
    ]_vars

\* the run aborted on a second finishFullFlush for the one window of the log
C38_Witness ==
  /\ pc = "aborted"
  /\ line.kind = "end_full_flush"
  /\ Len(full_flush_events) = 1
  /\ full_flush_events[1].end_time # None

====
